---- MODULE Spec2Model ----
(***************************************************************************)
(* Model of app/app.py: a Flask control plane over the Docker runtime.     *)
(*                                                                         *)
(* Every inbound HTTP request is one entry of req.  A handler blocks on    *)
(* each call to the Docker daemon, so concurrent requests interleave at    *)
(* those calls: every action below is the stretch of one handler that      *)
(* runs up to and including its next runtime call (plus the in-process     *)
(* work and local file I/O that follows it).                               *)
(*                                                                         *)
(* The Docker daemon is the only shared store of containers.  It is        *)
(* modelled by what the calls of app.py rely on: names are unique at       *)
(* create (409 Conflict), the name filter of list matches substrings,      *)
(* containers.run is create followed by start, host ports are bound at     *)
(* start, and a container object obtained from get/create addresses the    *)
(* container by id afterwards.                                             *)
(*                                                                         *)
(* Abstractions: the timestamp of an audit line and the title/body of the  *)
(* generated page are left out (no branch reads them); docker's status     *)
(* "exited" is written "stopped".                                          *)
(***************************************************************************)
EXTENDS Integers, Sequences, FiniteSets, TLC

\* Number of HTTP requests served in one behaviour.
MaxRequests == 2

\* Largest raw counter value of a stats sample.
MaxCounter == 3

VARIABLES
    req,         \* req[r]: the r-th HTTP request and how far its handler got
    containers,  \* the Docker daemon's registry: name -> [state, port, id]
    audit,       \* the lines of logs/actions.log, oldest first
    assets,      \* names n for which nginx_sites/n/index.html was written
    stats        \* the /containers/<name>/stats request under study

vars == <<req, containers, audit, assets, stats>>

ReqIds == 1..MaxRequests

-----------------------------------------------------------------------------
\* Inputs

\* Container names: "w" and "w1" (the first is a substring of the second).
Names == { <<"w">>, <<"w", "1">> }

\* The session's user: nobody logged in, or a row of the User table.
Actors == {"anon", "alice", "bob"}

\* User.role of the rows of the User table.
role(a) == IF a = "alice" THEN "admin" ELSE "viewer"

\* User.username.
username(a) == a

Images == {"nginx:alpine", "data-web:latest", "devops-web:latest", "unknown:latest"}

\* request.form["host_port"] is text.
PortInputs == {"8080", "8081", "http"}

Ops == {"create", "start", "stop", "delete"}

Absent == [state |-> "absent", port |-> 0, id |-> 0]

-----------------------------------------------------------------------------
\* Pure pieces of the handlers

\* flask_login.login_required: the session holds a user.
login_required(a) == a # "anon"

\* admin_required with the role test inverted.
admin_required_viewer(a) == role(a) # "admin"

\* admin_required: current_user.role must be "admin".
admin_required(a) == role(a) = "admin"

\* int(port): the number a decimal string denotes; -1 stands for ValueError.
int(p) ==
    CASE p = "8080" -> 8080
      [] p = "8081" -> 8081
      [] OTHER -> -1

\* The filter {"name": f} of containers.list matches any container whose name
\* contains f.
NameMatches(f, n) ==
    \E i \in 1..(Len(n) - Len(f) + 1) : SubSeq(n, i, i + Len(f) - 1) = f

\* The listing without all=True: running containers only.
containers_list_running(cs, f) ==
    { n \in Names : cs[n].state = "running" /\ NameMatches(f, n) }

\* client.containers.list(all=True, filters={"name": f}).
containers_list(cs, f) ==
    { n \in Names : cs[n].state # "absent" /\ NameMatches(f, n) }

\* The app type logic with an else branch that falls back to the
\* application port instead of rejecting.
image_policy_open(image) ==
    IF image = "nginx:alpine"
    THEN [ok |-> TRUE, container_port |-> "80/tcp", use_volume |-> TRUE]
    ELSE [ok |-> TRUE, container_port |-> "8000/tcp", use_volume |-> FALSE]

\* The "App type logic" of create: container port and volume per image.
image_policy(image) ==
    IF image = "nginx:alpine"
    THEN [ok |-> TRUE, container_port |-> "80/tcp", use_volume |-> TRUE]
    ELSE IF image \in {"data-web:latest", "devops-web:latest"}
    THEN [ok |-> TRUE, container_port |-> "8000/tcp", use_volume |-> FALSE]
    ELSE [ok |-> FALSE, container_port |-> "", use_volume |-> FALSE]

\* The action text of each handler's log_action call.
action_text(op, name, image) ==
    CASE op = "create" -> [verb |-> "Created container", name |-> name, image |-> image]
      [] op = "start"  -> [verb |-> "Started", name |-> name, image |-> ""]
      [] op = "stop"   -> [verb |-> "Stopped", name |-> name, image |-> ""]
      [] OTHER         -> [verb |-> "Deleted", name |-> name, image |-> ""]

\* log_action writing the role where the username belongs.
log_action_role(user, action) == [user |-> role(user), action |-> action]

\* log_action: the line "<timestamp> | <user> | <action>".
log_action(user, action) == [user |-> user, action |-> action]

\* The daemon refuses to start container n on host port p while another
\* running container holds p ("port is already allocated").
PortAllocated(cs, n, p) ==
    \E m \in Names \ {n} : cs[m].state = "running" /\ cs[m].port = p

-----------------------------------------------------------------------------
\* Requests

Idle ==
    [pc |-> "idle", actor |-> "anon", op |-> "create", method |-> "POST",
     name |-> <<>>, image |-> "", port |-> "", cid |-> 0,
     calls |-> {}, asset |-> FALSE, registered |-> FALSE, mutated |-> FALSE,
     audited |-> FALSE, err |-> "", stage |-> "", resp |-> ""]

\* The handler returns (or raises) without further effect.
Finish(q, err, stage, resp) ==
    [q EXCEPT !.pc = "done", !.err = err, !.stage = stage, !.resp = resp]

NoStats ==
    [pc |-> "none", actor |-> "anon", name |-> <<>>,
     sample |-> [cpu_total |-> 0, precpu_total |-> 0, system |-> 0,
                 presystem |-> 0, usage |-> 0, limit |-> 0],
     cpu |-> 0, mem_usage |-> 0, mem_limit |-> 0, resp |-> ""]

Init ==
    /\ req = [r \in ReqIds |-> Idle]
    /\ containers = [n \in Names |-> Absent]
    /\ audit = <<>>
    /\ assets = {}
    /\ stats = NoStats

\* log_action was reached and its write succeeded; the handler flashes and
\* redirects.
logged(q) ==
    [q EXCEPT !.pc = "done", !.mutated = TRUE, !.audited = TRUE, !.resp = "success"]

\* open(LOG_FILE, "a") or the write raised OSError: no handler catches it, the
\* request ends as an unhandled exception (HTTP 500).
log_failed(q) ==
    [Finish(q, "AuditWriteFailed", "log", "fault") EXCEPT !.mutated = TRUE]

\* An except branch that swallows the error: the handler logs and reports
\* success whether or not containers.run raised.
on_api_error_success(q, e) ==
    [q EXCEPT !.pc = "done", !.audited = TRUE, !.resp = "success"]

\* create's "except docker.errors.APIError as e": e is the daemon's message.
on_api_error(q, e) ==
    IF e = "port is already allocated"
    THEN Finish(q, "PortInUse", "run", "rejected")
    ELSE IF e = "Conflict"
    THEN Finish(q, "NameConflict", "run", "rejected")
    ELSE Finish(q, "RuntimeError", "run", "rejected")

\* What start/stop/delete do with an exception of the runtime: nothing, it
\* leaves the handler as an unhandled exception (HTTP 500).
on_unhandled(q, err) == Finish(q, err, "act", "fault")

\* The handler of request r moves on to q; when q says the audit line was
\* written, the line is appended to the log file.
Commit(r, q) ==
    /\ req' = [req EXCEPT ![r] = q]
    /\ audit' =
        IF q.audited /\ ~req[r].audited
        THEN Append(audit, [line |-> log_action(username(q.actor),
                                                action_text(q.op, q.name, q.image)),
                            req |-> r])
        ELSE audit

\* The end of a mutating handler after its runtime call returned: log_action,
\* then the redirect.
LogAndRespond(r, q) ==
    \/ Commit(r, logged(q))
    \/ Commit(r, log_failed(q))

-----------------------------------------------------------------------------
\* Actions

\* A request arrives: the decorators run, and a handler that is let in reads
\* the route's name or the form.
Request(r) ==
    /\ req[r].pc = "idle"
    /\ r > 1 => req[r - 1].pc # "idle"
    /\ \E a \in Actors, o \in Ops :
         LET q == [req[r] EXCEPT !.actor = a, !.op = o] IN
         IF ~login_required(a)
         THEN Commit(r, Finish(q, "Unauthenticated", "gate", "login"))
         ELSE IF ~admin_required(a)
         THEN Commit(r, Finish(q, "Forbidden", "gate", "rejected"))
         ELSE IF o = "create"
         THEN \/ Commit(r, [Finish(q, "", "", "form") EXCEPT !.method = "GET"])
              \/ \E n \in Names, p \in PortInputs, i \in Images :
                    Commit(r, [q EXCEPT !.pc = "precheck", !.name = n,
                                        !.port = p, !.image = i])
         ELSE \E n \in Names : Commit(r, [q EXCEPT !.pc = "get", !.name = n])
    /\ UNCHANGED <<containers, assets, stats>>

\* create, from the name pre-check to the written site asset.
create_precheck(r) ==
    LET q   == [req[r] EXCEPT !.calls = @ \cup {"list"}]
        pol == image_policy(q.image)
    IN
    /\ req[r].pc = "precheck"
    /\ IF containers_list(containers, q.name) # {}
       THEN Commit(r, Finish(q, "NameConflict", "precheck", "rejected"))
            /\ UNCHANGED assets
       ELSE IF ~pol.ok
       THEN Commit(r, Finish(q, "UnknownImageType", "policy", "rejected"))
            /\ UNCHANGED assets
       ELSE IF int(q.port) < 0
       THEN Commit(r, Finish(q, "ValueError", "policy", "fault"))
            /\ UNCHANGED assets
       ELSE IF pol.use_volume
       THEN /\ Commit(r, [q EXCEPT !.pc = "run", !.asset = TRUE])
            /\ assets' = assets \cup {q.name}
       ELSE /\ Commit(r, [q EXCEPT !.pc = "run"])
            /\ UNCHANGED assets
    /\ UNCHANGED <<containers, stats>>

\* client.containers.run, first half: the daemon creates the container.
create_run(r) ==
    LET q == [req[r] EXCEPT !.calls = @ \cup {"run"}] IN
    /\ req[r].pc = "run"
    /\ \/ /\ containers[q.name].state # "absent"
          /\ Commit(r, on_api_error(q, "Conflict"))
          /\ UNCHANGED containers
       \/ /\ containers[q.name].state = "absent"
          /\ \/ /\ Commit(r, on_api_error(q, "No such image"))
                /\ UNCHANGED containers
             \/ /\ Commit(r, [q EXCEPT !.pc = "run_start", !.registered = TRUE,
                                        !.cid = r])
                /\ containers' = [containers EXCEPT ![q.name] =
                      [state |-> "created", port |-> int(q.port), id |-> r]]
    /\ UNCHANGED <<assets, stats>>

\* client.containers.run, second half: the daemon starts the container it
\* created; then log_action and the redirect.
create_run_start(r) ==
    LET q == req[r]
        c == containers[q.name]
    IN
    /\ q.pc = "run_start"
    /\ IF c.id # q.cid
       THEN Commit(r, on_api_error(q, "No such container")) /\ UNCHANGED containers
       ELSE IF c.state = "running"
       THEN LogAndRespond(r, q) /\ UNCHANGED containers
       ELSE IF PortAllocated(containers, q.name, c.port)
       THEN Commit(r, on_api_error(q, "port is already allocated"))
            /\ UNCHANGED containers
       ELSE /\ LogAndRespond(r, q)
            /\ containers' = [containers EXCEPT ![q.name].state = "running"]
    /\ UNCHANGED <<assets, stats>>

\* client.containers.get(name) of start_container, stop_container and
\* delete_container.
container_get(r) ==
    LET q == [req[r] EXCEPT !.calls = @ \cup {"get"}] IN
    /\ req[r].pc = "get"
    /\ IF containers[q.name].state = "absent"
       THEN Commit(r, on_unhandled(q, "NotFound"))
       ELSE Commit(r, [q EXCEPT !.pc = "act", !.cid = containers[q.name].id])
    /\ UNCHANGED <<containers, assets, stats>>

\* start_container after get: .start(), log_action, redirect.
start_container(r) ==
    LET q == [req[r] EXCEPT !.calls = @ \cup {"start"}]
        c == containers[q.name]
    IN
    /\ req[r].pc = "act" /\ req[r].op = "start"
    /\ IF c.state = "absent" \/ c.id # q.cid
       THEN Commit(r, on_unhandled(q, "NotFound")) /\ UNCHANGED containers
       ELSE IF c.state = "running"
       THEN LogAndRespond(r, q) /\ UNCHANGED containers
       ELSE IF PortAllocated(containers, q.name, c.port)
       THEN Commit(r, on_unhandled(q, "PortInUse")) /\ UNCHANGED containers
       ELSE /\ LogAndRespond(r, q)
            /\ containers' = [containers EXCEPT ![q.name].state = "running"]
    /\ UNCHANGED <<assets, stats>>

\* stop_container after get: .stop(), log_action, redirect.
stop_container(r) ==
    LET q == [req[r] EXCEPT !.calls = @ \cup {"stop"}]
        c == containers[q.name]
    IN
    /\ req[r].pc = "act" /\ req[r].op = "stop"
    /\ IF c.state = "absent" \/ c.id # q.cid
       THEN Commit(r, on_unhandled(q, "NotFound")) /\ UNCHANGED containers
       ELSE IF c.state = "running"
       THEN /\ LogAndRespond(r, q)
            /\ containers' = [containers EXCEPT ![q.name].state = "stopped"]
       ELSE LogAndRespond(r, q) /\ UNCHANGED containers
    /\ UNCHANGED <<assets, stats>>

\* delete_container after get: .remove(force=True), log_action, redirect.
delete_container(r) ==
    LET q == [req[r] EXCEPT !.calls = @ \cup {"remove"}]
        c == containers[q.name]
    IN
    /\ req[r].pc = "act" /\ req[r].op = "delete"
    /\ IF c.state = "absent" \/ c.id # q.cid
       THEN Commit(r, on_unhandled(q, "NotFound")) /\ UNCHANGED containers
       ELSE /\ LogAndRespond(r, q)
            /\ containers' = [containers EXCEPT ![q.name] = Absent]
    /\ UNCHANGED <<assets, stats>>

Next ==
    \E r \in ReqIds :
        \/ Request(r)
        \/ create_precheck(r)
        \/ create_run(r)
        \/ create_run_start(r)
        \/ container_get(r)
        \/ start_container(r)
        \/ stop_container(r)
        \/ delete_container(r)

Spec == Init /\ [][Next]_vars

-----------------------------------------------------------------------------
\* The stats handler

Counter == 0..MaxCounter

\* memory_stats.usage and memory_stats.limit, in bytes.
MemBytes == {0, 100 * 1024 * 1024, 200 * 1024 * 1024}

\* round(n / d, 0) for d > 0: to the nearest integer, ties to the even one.
RoundDiv(n, d) ==
    LET f == n \div d
        m == n % d
    IN IF 2 * m < d THEN f
       ELSE IF 2 * m > d THEN f + 1
       ELSE IF f % 2 = 0 THEN f ELSE f + 1

\* cpu_percent of container_stats, in hundredths as round(cpu_percent, 2)
\* reports it.
cpu_percent(s) ==
    LET cpu_delta    == s.cpu_total - s.precpu_total
        system_delta == s.system - s.presystem
    IN IF system_delta > 0
       THEN RoundDiv(cpu_delta * 100 * 100, system_delta)
       ELSE 0

\* round(bytes / 1024 / 1024, 2), in hundredths of a megabyte.
megabytes(b) ==
    (b \div (1024 * 1024)) * 100 + RoundDiv((b % (1024 * 1024)) * 100, 1024 * 1024)

\* container_stats up to c.stats(stream=False): the login check, get, and
\* the sample the daemon returns.
stats_sample ==
    /\ stats.pc = "none"
    /\ \E a \in Actors, n \in Names :
         LET q == [stats EXCEPT !.actor = a, !.name = n] IN
         IF ~login_required(a)
         THEN stats' = [q EXCEPT !.pc = "done", !.resp = "login"]
         ELSE IF containers[n].state = "absent"
         THEN stats' = [q EXCEPT !.pc = "done", !.resp = "404"]
         ELSE \E ct \in Counter, pt \in Counter, sy \in Counter, ps \in Counter,
                 u \in MemBytes, l \in MemBytes \ {0} :
                 stats' = [q EXCEPT !.pc = "sampled",
                             !.sample = [cpu_total |-> ct, precpu_total |-> pt,
                                         system |-> sy, presystem |-> ps,
                                         usage |-> u, limit |-> l]]
    /\ UNCHANGED <<req, containers, audit, assets>>

\* container_stats from the sample to the returned JSON.
container_stats ==
    /\ stats.pc = "sampled"
    /\ stats' = [stats EXCEPT !.pc = "done", !.resp = "200",
                               !.cpu = cpu_percent(stats.sample),
                               !.mem_usage = megabytes(stats.sample.usage),
                               !.mem_limit = megabytes(stats.sample.limit)]
    /\ UNCHANGED <<req, containers, audit, assets>>

\* The daemon holds no container, or one that an earlier create left running.
InitStats ==
    /\ req = [r \in ReqIds |-> Idle]
    /\ containers \in
         { [n \in Names |-> IF n \in S
                            THEN [state |-> "running", port |-> 8080 + Len(n), id |-> 0]
                            ELSE Absent] : S \in SUBSET Names }
    /\ audit = <<>>
    /\ assets = {}
    /\ stats = NoStats

NextStats == stats_sample \/ container_stats

SpecStats == InitStats /\ [][NextStats]_vars

-----------------------------------------------------------------------------
\* Properties

Done(r) == req[r].pc = "done"

Issued(r) == req[r].pc # "idle"

\* The audit lines written for request r.
LinesOf(r) == { i \in 1..Len(audit) : audit[i].req = r }

\* The "Created container" lines naming n.
CreatedLines(n) ==
    { i \in 1..Len(audit) :
        audit[i].line.action.verb = "Created container"
        /\ audit[i].line.action.name = n }

\* C1: a create, start, stop or delete from an actor who is not logged in or
\* whose role is not admin is rejected at the gate, and on behalf of that
\* request no runtime call was issued, no site asset was written, no
\* container was touched and no audit line was appended.
C1_GateHasNoSideEffects ==
    \A r \in ReqIds :
        (Issued(r) /\ (req[r].actor = "anon" \/ role(req[r].actor) # "admin"))
        => /\ Done(r)
           /\ req[r].resp = (IF req[r].actor = "anon" THEN "login" ELSE "rejected")
           /\ req[r].calls = {}
           /\ ~req[r].asset
           /\ ~req[r].registered
           /\ ~req[r].mutated
           /\ ~req[r].audited
           /\ LinesOf(r) = {}

\* A viewer's delete was turned away while a container was running.
C1_Witness ==
    \E r \in ReqIds :
        /\ req[r].actor = "bob" /\ req[r].op = "delete"
        /\ req[r].resp = "rejected"
        /\ \E n \in Names : containers[n].state = "running"

\* C2: every create, start, stop or delete reported as successful has
\* exactly one audit line, carrying the username of the request's actor and
\* the action text of the operation and the container (and, for create, the
\* image); the log holds as many lines as operations succeeded.
C2_OneAuditLinePerSuccess ==
    /\ \A r \in ReqIds :
         req[r].resp = "success"
         => /\ Cardinality(LinesOf(r)) = 1
            /\ \A i \in LinesOf(r) :
                 /\ audit[i].line.user = req[r].actor
                 /\ audit[i].line.action.name = req[r].name
                 /\ audit[i].line.action.verb =
                      (CASE req[r].op = "create" -> "Created container"
                         [] req[r].op = "start"  -> "Started"
                         [] req[r].op = "stop"   -> "Stopped"
                         [] req[r].op = "delete" -> "Deleted")
                 /\ audit[i].line.action.image =
                      (IF req[r].op = "create" THEN req[r].image ELSE "")
    /\ Len(audit) = Cardinality({ r \in ReqIds : req[r].resp = "success" })

\* A create and a later stop of the same container both succeeded and both
\* are in the log.
C2_Witness ==
    \E r1, r2 \in ReqIds :
        /\ req[r1].op = "create" /\ req[r1].resp = "success"
        /\ req[r2].op = "stop" /\ req[r2].resp = "success"
        /\ req[r2].name = req[r1].name
        /\ Len(audit) = 2

C4_FailedCreateLeavesNothing ==
    \A r \in ReqIds :
        (req[r].op = "create" /\ Done(r)
           /\ req[r].err \in {"NameConflict", "UnknownImageType", "PortInUse",
                              "RuntimeError"})
        => /\ req[r].resp = "rejected"
           /\ containers[req[r].name].id # r

\* C5 as claimed: a create with an image outside the allowlist is rejected
\* with UnknownImageType before any site asset is written and before any
\* runtime call, the listing of the name pre-check included.
C5_UnknownImageBeforeAnyCall ==
    \A r \in ReqIds :
        (req[r].pc \notin {"idle", "precheck"} /\ req[r].op = "create"
           /\ req[r].method = "POST" /\ role(req[r].actor) = "admin"
           /\ req[r].actor # "anon"
           /\ req[r].image \notin {"nginx:alpine", "data-web:latest",
                                   "devops-web:latest"})
        => /\ req[r].err = "UnknownImageType"
           /\ req[r].calls = {}
           /\ ~req[r].asset

\* C5 as amended: such a create is rejected, with UnknownImageType or, when
\* the pre-check finds the name, with NameConflict; no site asset is written
\* and the only runtime call issued is the listing of the name pre-check.
C5_UnknownImageOnlyLists ==
    \A r \in ReqIds :
        (Issued(r) /\ req[r].op = "create" /\ req[r].method = "POST"
           /\ role(req[r].actor) = "admin" /\ req[r].actor # "anon"
           /\ req[r].image \notin {"nginx:alpine", "data-web:latest",
                                   "devops-web:latest"})
        => /\ req[r].calls \subseteq {"list"}
           /\ ~req[r].asset
           /\ ~req[r].registered /\ ~req[r].audited
           /\ req[r].pc \in {"precheck", "done"}
           /\ Done(r) =>
                /\ req[r].resp = "rejected"
                /\ req[r].calls = {"list"}
                /\ req[r].err \in {"UnknownImageType", "NameConflict"}
                /\ req[r].err = "NameConflict" => req[r].stage = "precheck"

\* A create of a free name with image unknown:latest was rejected by the
\* image policy after the listing.
C5_Witness ==
    \E r \in ReqIds :
        /\ req[r].image = "unknown:latest"
        /\ req[r].err = "UnknownImageType"
        /\ req[r].calls = {"list"}
        /\ req[r].resp = "rejected"

\* C6: a create whose pre-check runs while its name exists in the runtime,
\* in whatever state, ends there: rejected with NameConflict, no run call,
\* no site asset, no audit line, the runtime untouched.
C6_ExistingNameRejected ==
    [][ \A r \in ReqIds :
          (req[r].pc = "precheck" /\ req'[r] # req[r]
             /\ containers[req[r].name].state # "absent")
          => /\ req'[r].pc = "done"
             /\ req'[r].err = "NameConflict"
             /\ req'[r].resp = "rejected"
             /\ "run" \notin req'[r].calls
             /\ ~req'[r].asset /\ ~req'[r].registered /\ ~req'[r].audited
             /\ UNCHANGED <<containers, assets, audit>> ]_vars

\* A create was rejected by the pre-check while the container of that very
\* name existed and had not been started yet.
C6_Witness ==
    \E r \in ReqIds :
        /\ req[r].err = "NameConflict" /\ req[r].stage = "precheck"
        /\ containers[req[r].name].state = "created"
        /\ req[r].calls = {"list"}

\* C7: start, stop or delete of a name the runtime does not know fails with
\* NotFound, answered as a user-facing rejection and not as an unhandled
\* fault, with no container touched and no audit line.
C7_NotFoundIsRejection ==
    \A r \in ReqIds :
        (req[r].op \in {"start", "stop", "delete"} /\ req[r].err = "NotFound")
        => /\ req[r].resp = "rejected"
           /\ ~req[r].mutated
           /\ LinesOf(r) = {}

\* C8: when the audit write fails after the runtime call succeeded, the
\* request is not reported as successful, and its answer differs from the
\* answer the same handler gives to an ordinary rejection by the runtime.
C8_AuditFailureIsDistinct ==
    \A r \in ReqIds :
        (req[r].mutated /\ Done(r) /\ LinesOf(r) = {})
        => /\ req[r].resp # "success"
           /\ req[r].resp #
                (IF req[r].op = "create"
                 THEN on_api_error(req[r], "Conflict").resp
                 ELSE on_unhandled(req[r], "NotFound").resp)

\* C9: a container changes state only along the documented edges: create
\* absent -> created -> running, start stopped -> running, stop running ->
\* stopped, delete anything -> absent; and a create that ends does not leave
\* its container short of running.
C9_DocumentedEdgesOnly ==
    [][ \A r \in ReqIds :
          req'[r] # req[r] =>
            LET n    == req'[r].name
                from == IF n \in Names THEN containers[n].state ELSE "absent"
                to   == IF n \in Names THEN containers'[n].state ELSE "absent"
                op   == req'[r].op
            IN /\ from # to =>
                    \/ op = "create" /\ <<from, to>> \in
                          {<<"absent", "created">>, <<"created", "running">>}
                    \/ op = "start" /\ <<from, to>> = <<"stopped", "running">>
                    \/ op = "stop" /\ <<from, to>> = <<"running", "stopped">>
                    \/ op = "delete" /\ to = "absent"
               /\ (op = "create" /\ req'[r].pc = "done" /\ n \in Names
                     /\ containers'[n].id = r)
                  => to = "running" ]_vars

-----------------------------------------------------------------------------
\* Properties of the stats handler

\* C10: the CPU percentage the stats handler reports is never negative,
\* whatever the four counters of the sample are.
C10_CpuNeverNegative == stats.resp = "200" => stats.cpu >= 0

====
